---------------------------- MODULE Spec2Model ----------------------------
(***************************************************************************)
(* The campus carbon inventory application of src/carbon_app.py as a state *)
(* machine.  The state is Streamlit's st.session_state, a dictionary from  *)
(* key strings to values; one step is one user interaction handled to      *)
(* completion: the script run it triggers, the run that st.rerun() starts  *)
(* when the handler asks for one, and the clean-up of widget state at the  *)
(* end of the last run.                                                    *)
(*                                                                         *)
(* Numbers.  The program computes in floating point.  The model computes   *)
(* exactly, in integers: an emission is held in units of 1e-7 tonnes and   *)
(* an emission factor as factor * 1e7, so that every product and every     *)
(* division by 1000 of the program is exact.  A refrigerant quantity (the  *)
(* only input with a 0.1 step) is held in tenths.  The keys of the source  *)
(* that are Chinese strings are written in English (the original is in     *)
(* the comment beside each table).                                         *)
(***************************************************************************)
EXTENDS Integers, Sequences, FiniteSets, TLC

VARIABLES
    session_state,  \* st.session_state: a function from the keys present to their values
    widget_keys,    \* the session keys bound to a widget (selectbox key=...) created so far
    edits,          \* how many input edits the user has made (bounds the exploration)
    download        \* the file the download button gave last, and what was imported since

vars == <<session_state, widget_keys, edits, download>>

(***************************************************************************)
(* Bounds of the exploration.                                              *)
(***************************************************************************)
MaxEdits == 2
MaxUsage == 3
MaxImports == 1

\* The value a user types into a number input.
UsageValues == {MaxUsage}

(***************************************************************************)
(* Program constants.                                                      *)
(***************************************************************************)
Scale == 10 ^ 7                 \* emission units per tonne of the model
None == -1                      \* Python's None in a gwp / factor field
gwp_ch4 == 28
ElectricityFactor == 4740000    \* 0.474 kgCO2e per kWh, times Scale
CurrentYear == 2025             \* datetime.now().year
Prefixes == {"ar5", "ar6"}
SepticInUse == "no_septic_tank_in_use"      \* '否 (使用化糞池)'
SepticNotInUse == "yes_sewer_no_emission"   \* '是 (無化糞池逸散)'
SepticOptions == {SepticInUse, SepticNotInUse}
YearsOptions == 2020 .. (CurrentYear + 25)
\* The year a user picks in the exploration: the last of the list.
YearChoices == {2020}

USERS == [Elvis |-> "0000", Nutc1 |-> "0001", Nutc2 |-> "0002", Nutc3 |-> "0003"]
\* The user names and passwords typed into the login form.
LoginNames == {"Elvis", "guest"}
LoginPasswords == {"0000", "0001"}

\* Mutant of K: the key without its version, one store for both versions.
K_NoPrefix(name, prefix) == name \o "_ar5"

\* f"{name}_{prefix}"
K(name, prefix) == name \o "_" \o prefix

Months == {"m01", "m02", "m03", "m04", "m05", "m06",
           "m07", "m08", "m09", "m10", "m11", "m12"}

(***************************************************************************)
(* The default tables of get_ar_initial_data.                              *)
(***************************************************************************)
\* 燃料油, 天然氣(NG), 液化石油氣(LPG), 汽油, 柴油, 潤滑油
S1Default == [
    fuel_oil    |-> [usage |-> 100, unit |-> "liter/year",  factor |-> 25670],
    natural_gas |-> [usage |-> 100, unit |-> "degree/year", factor |-> 18810],
    LPG         |-> [usage |-> 100, unit |-> "liter/year",  factor |-> 17540],
    gasoline    |-> [usage |-> 100, unit |-> "liter/year",  factor |-> 22710],
    diesel      |-> [usage |-> 100, unit |-> "liter/year",  factor |-> 26150],
    lubricant   |-> [usage |-> 100, unit |-> "liter/year",  factor |-> 29560]]

\* 車用汽油, 車用柴油, 煤油, 潤滑油_mobile, 液化石油氣(LPG)_mobile, 液化天然氣(LNG)
S2Default == [
    car_gasoline |-> [usage |-> 100, unit |-> "liter/year", factor |-> 22980],
    car_diesel   |-> [usage |-> 100, unit |-> "liter/year", factor |-> 27220],
    kerosene     |-> [usage |-> 100, unit |-> "liter/year", factor |-> 25670],
    lubricant_mobile |-> [name |-> "lubricant", usage |-> 100, unit |-> "liter/year",
                          factor |-> 29560],
    LPG_mobile   |-> [name |-> "LPG", usage |-> 100, unit |-> "liter/year",
                      factor |-> 18030],
    LNG          |-> [usage |-> 100, unit |-> "degree/year", factor |-> 22410]]

\* 平日日間使用學生, 平日夜間使用學生, 假日使用學生, 住宿人員,
\* 平日日間使用員工, 平日夜間使用員工, 假日使用員工
S3Default == [
    student_weekday_day   |-> [usage |-> 100, factor |-> 21000],
    student_weekday_night |-> [usage |-> 10,  factor |-> 5000],
    student_holiday       |-> [usage |-> 0,   factor |-> 0],
    resident              |-> [usage |-> 0,   factor |-> 0],
    staff_weekday_day     |-> [usage |-> 50,  factor |-> 21000],
    staff_weekday_night   |-> [usage |-> 5,   factor |-> 5000],
    staff_holiday         |-> [usage |-> 0,   factor |-> 0]]

\* Mutant of S4Default: the last record has no coefficient at all.
S4Default_NoCoefficient == [
    CO2_extinguisher |-> [usage |-> 1, gwp |-> 1,    factor |-> None],
    FM_200           |-> [usage |-> 1, gwp |-> 3350, factor |-> None],
    BC_dry_powder    |-> [usage |-> 1, gwp |-> None, factor |-> 3000],
    KBC_dry_powder   |-> [usage |-> 1, gwp |-> None, factor |-> None]]

\* 二氧化碳滅火器, FM-200, BC型乾粉滅火器, KBC型乾粉滅火器
S4Default == [
    CO2_extinguisher |-> [usage |-> 1, gwp |-> 1,    factor |-> None],
    FM_200           |-> [usage |-> 1, gwp |-> 3350, factor |-> None],
    BC_dry_powder    |-> [usage |-> 1, gwp |-> None, factor |-> 3000],
    KBC_dry_powder   |-> [usage |-> 1, gwp |-> None, factor |-> 2000]]

\* The refrigerants; usage in tenths of a kilogram (0.5 is 5).
S5Default == [
    HFC_23   |-> [usage |-> 5, gwp |-> 12400], HFC_32   |-> [usage |-> 1, gwp |-> 677],
    HFC_41   |-> [usage |-> 0, gwp |-> 116],   HFC_134  |-> [usage |-> 0, gwp |-> 1120],
    HFC_134a |-> [usage |-> 0, gwp |-> 1300],  HFC_143  |-> [usage |-> 0, gwp |-> 328],
    HFC_143a |-> [usage |-> 0, gwp |-> 4800],  HFC_152  |-> [usage |-> 0, gwp |-> 16],
    HFC_152a |-> [usage |-> 0, gwp |-> 138],   R401a    |-> [usage |-> 0, gwp |-> 1130],
    R401B    |-> [usage |-> 0, gwp |-> 1236],  R404A    |-> [usage |-> 5, gwp |-> 3943],
    R407A    |-> [usage |-> 0, gwp |-> 1923],  R407B    |-> [usage |-> 0, gwp |-> 2547],
    R407C    |-> [usage |-> 0, gwp |-> 1624],  R408A    |-> [usage |-> 0, gwp |-> 3257],
    R410A    |-> [usage |-> 0, gwp |-> 1924],  R413A    |-> [usage |-> 0, gwp |-> 1945],
    R417A    |-> [usage |-> 0, gwp |-> 2127],  R507A    |-> [usage |-> 0, gwp |-> 3985]]

\* 汽車-汽油, 汽車-電動車, 機車-一般機車, 機車-電動機車, 公車/客運, 捷運, 火車, 高鐵
S6Default == [
    car_gasoline_commute |-> [distance |-> 100, factor |-> 1040000],
    car_electric         |-> [distance |-> 100, factor |-> 400000],
    scooter              |-> [distance |-> 100, factor |-> 790000],
    scooter_electric     |-> [distance |-> 100, factor |-> 170000],
    bus                  |-> [distance |-> 100, factor |-> 780000],
    metro                |-> [distance |-> 100, factor |-> 400000],
    train                |-> [distance |-> 0,   factor |-> 400000],
    high_speed_rail      |-> [distance |-> 0,   factor |-> 280000]]

S7ElectricityDefault == [m \in Months |-> 10000]
S7WaterDefault == [m \in Months |-> 100]
\* 台灣自來水營業事業處, 臺北自來水營業事業處
\* Mutant of WaterSourceDefault: a utility the factor table does not list.
WaterSourceDefault_Unlisted == "Kaohsiung_Water"

WaterSourceDefault == "Taiwan_Water"
WaterFactorsDefault == [Taiwan_Water |-> 1872000, Taipei_Water |-> 666000]


(***************************************************************************)
(* The default lists of get_campus_initial_data: 太陽能光電, 風力發電 and    *)
(* 針葉樹, 闊葉樹, 棕梠科.                                                   *)
(***************************************************************************)
CampusRenewableDefault == <<
    [category |-> "solar_pv",   generation |-> 1000, unit |-> "kWh"],
    [category |-> "wind_power", generation |-> 0,    unit |-> "kWh"]>>

CampusTreeDefault == <<
    [tree_category |-> "conifer",   sequestration |-> 1000],
    [tree_category |-> "broadleaf", sequestration |-> 500],
    [tree_category |-> "palm",      sequestration |-> 20]>>

(***************************************************************************)
(* Initialization: every key is written only when it is absent.            *)
(***************************************************************************)
\* if key not in st.session_state: st.session_state[key] = value
SetDefault(s, key, value) == s @@ (key :> value)

\* The year list holds the current year, so the default is the current year.
DefaultYear == IF CurrentYear \in YearsOptions THEN CurrentYear ELSE CurrentYear + 25

\* The keys get_ar_initial_data writes when they are absent, with their values.
ArDefaults(prefix) ==
    (K("show_dashboard", prefix) :> FALSE)
    @@ (K("inventory_year", prefix) :> DefaultYear)
    @@ (K("s1_data", prefix) :> S1Default)
    @@ (K("s2_data", prefix) :> S2Default)
    @@ (K("s3_septic_system", prefix) :> SepticInUse)
    @@ (K("s3_data", prefix) :> S3Default)
    @@ (K("s4_data", prefix) :> S4Default)
    @@ (K("s5_data", prefix) :> S5Default)
    @@ (K("s6_data", prefix) :> S6Default)
    @@ (K("s7_electricity", prefix) :> S7ElectricityDefault)
    @@ (K("s7_water", prefix) :> S7WaterDefault)
    @@ (K("s7_water_source", prefix) :> WaterSourceDefault)
    @@ (K("water_factors", prefix) :> WaterFactorsDefault)

\* Mutant of get_ar_initial_data: the defaults are written over what is there.
get_ar_initial_data_Overwrites(s, prefix) == ArDefaults(prefix) @@ s

\* Every "if key not in st.session_state" of the function: a key that is
\* present keeps its value, an absent one gets its default.
get_ar_initial_data(s, prefix) == s @@ ArDefaults(prefix)

CampusDefaults ==
    [campus_inventory_year |-> DefaultYear,
     campus_renewable_self_use |-> CampusRenewableDefault,
     campus_renewable_sold |-> CampusRenewableDefault,
     campus_tree_sink |-> CampusTreeDefault]

get_campus_initial_data(s) == s @@ CampusDefaults

initialize_state(s) ==
    get_campus_initial_data(
        get_ar_initial_data(
            get_ar_initial_data(SetDefault(s, "page", "AR5"), "ar5"), "ar6"))

(***************************************************************************)
(* Sums over a dictionary.                                                 *)
(***************************************************************************)
RECURSIVE SumOver(_, _)
\* sum(f[k] for k in keys)
SumOver(f, keys) ==
    IF keys = {} THEN 0
    ELSE LET k == CHOOSE x \in keys : TRUE
         IN  f[k] + SumOver(f, keys \ {k})

\* sum(f.values())
Sum(f) == SumOver(f, DOMAIN f)

\* v.get(name): the field, or None when the record has none
Get(v, name) == IF name \in DOMAIN v THEN v[name] ELSE None

(***************************************************************************)
(* The per-item formulas of calculate_totals (in units of 1e-7 tonnes).    *)
(***************************************************************************)
\* Mutant of FactorEmission: the product is divided by 1000 like the others.
FactorEmission_Per1000(v) == v.usage * (v.factor \div 1000)

\* v['usage'] * v['factor']
FactorEmission(v) == v.usage * v.factor

\* v['usage'] * v['factor'] * gwp_ch4
WastewaterEmission(v) == v.usage * v.factor * gwp_ch4

\* Mutant of FireEmission: the factor is looked at first, as in to_excel.
FireEmission_FactorFirst(v) ==
    IF Get(v, "factor") # None THEN v.usage * v.factor
    ELSE IF Get(v, "gwp") # None THEN v.usage * v.gwp * (Scale \div 1000)
    ELSE 0

\* (v['usage'] * v['gwp']) / 1000 if gwp is not None, elif usage * factor, else nothing
FireEmission(v) ==
    IF Get(v, "gwp") # None THEN v.usage * v.gwp * (Scale \div 1000)
    ELSE IF Get(v, "factor") # None THEN v.usage * v.factor
    ELSE 0

\* (v['usage'] * v['gwp']) / 1000, the usage in tenths
RefrigerantEmission(v) == (v.usage * v.gwp * (Scale \div 1000)) \div 10

\* (v['distance'] * v['factor']) / 1000
CommutingEmission(v) == v.distance * (v.factor \div 1000)

\* (total usage * factor) / 1000
UtilityEmission(total, factor) == total * (factor \div 1000)

\* The sums of calculate_totals over the records of one category.
FactorTotal(d) == Sum([k \in DOMAIN d |-> FactorEmission(d[k])])

WastewaterTotal(d) == Sum([k \in DOMAIN d |-> WastewaterEmission(d[k])])

FireTotal(d) == Sum([k \in DOMAIN d |-> FireEmission(d[k])])

RefrigerantTotal(d) == Sum([k \in DOMAIN d |-> RefrigerantEmission(d[k])])

CommutingTotal(d) == Sum([k \in DOMAIN d |-> CommutingEmission(d[k])])

(***************************************************************************)
(* calculate_totals                                                        *)
(***************************************************************************)
\* st.session_state[key] = value
Put(s, key, value) == (key :> value) @@ s

\* The one element of a one-element set: The({e(x) : x \in {v}}) is e with x
\* standing for the value of v.
The(S) == CHOOSE x \in S : TRUE

\* The lookup water_factors[water source] raises KeyError for an unknown utility.
WaterLookupRaises(s, prefix) ==
    s[K("s7_water_source", prefix)] \notin DOMAIN s[K("water_factors", prefix)]

\* Mutant of is_septic_used: the setting is compared with a string it never equals.
is_septic_used_Never(s, prefix) == s[K("s3_septic_system", prefix)] = "septic_tank"

\* Mutant of is_septic_used: the setting is ignored.
is_septic_used_Always(s, prefix) == TRUE

is_septic_used(s, prefix) == s[K("s3_septic_system", prefix)] = SepticInUse

\* The dictionary totals built by steps 1 to 7.
Totals(s, prefix) ==
    [s1 |-> FactorTotal(s[K("s1_data", prefix)]),
     s2 |-> FactorTotal(s[K("s2_data", prefix)]),
     s3 |-> IF is_septic_used(s, prefix)
            THEN WastewaterTotal(s[K("s3_data", prefix)]) ELSE 0,
     s4 |-> FireTotal(s[K("s4_data", prefix)]),
     s5 |-> RefrigerantTotal(s[K("s5_data", prefix)]),
     s6 |-> CommutingTotal(s[K("s6_data", prefix)]),
     s7_electricity |->
         UtilityEmission(Sum(s[K("s7_electricity", prefix)]), ElectricityFactor),
     s7_water |->
         UtilityEmission(Sum(s[K("s7_water", prefix)]),
                         s[K("water_factors", prefix)][s[K("s7_water_source", prefix)]])]

\* Mutant of ScopeTotals: purchased water is counted with purchased electricity.
ScopeTotals_WaterInScope2(totals) ==
    LET scope1 == totals.s1 + totals.s2 + totals.s3 + totals.s4 + totals.s5
        scope2 == totals.s7_electricity + totals.s7_water
        scope3 == totals.s6
    IN  [Scope1 |-> scope1, Scope2 |-> scope2, Scope3 |-> scope3,
         GrandTotal |-> scope1 + scope2 + scope3]

\* Mutant of ScopeTotals: the refrigerant subtotal is left out of Scope 1.
ScopeTotals_DropsRefrigerant(totals) ==
    LET scope1 == totals.s1 + totals.s2 + totals.s3 + totals.s4
        scope2 == totals.s7_electricity
        scope3 == totals.s6 + totals.s7_water
    IN  [Scope1 |-> scope1, Scope2 |-> scope2, Scope3 |-> scope3,
         GrandTotal |-> scope1 + scope2 + scope3]

ScopeTotals(totals) ==
    LET scope1 == totals.s1 + totals.s2 + totals.s3 + totals.s4 + totals.s5
        scope2 == totals.s7_electricity
        scope3 == totals.s6 + totals.s7_water
    IN  [Scope1 |-> scope1, Scope2 |-> scope2, Scope3 |-> scope3,
         GrandTotal |-> scope1 + scope2 + scope3]

\* 固定源, 移動源, 汙水, 滅火器, 冷媒, 員工通勤, 外購電力, 外購水力
EmissionBreakdown(totals) ==
    [stationary |-> totals.s1, mobile |-> totals.s2, wastewater |-> totals.s3,
     fire |-> totals.s4, refrigerant |-> totals.s5, commuting |-> totals.s6,
     electricity |-> totals.s7_electricity, water |-> totals.s7_water]

\* Mutant of WriteTotals: the totals are written for both versions.
WriteTotals_BothVersions(s, prefix, totals) ==
    Put(Put(s, "totals_ar5", totals), "totals_ar6", totals)

\* Mutant of WriteTotals: only totals_<prefix> is written.
WriteTotals_Partial(s, prefix, totals) == Put(s, K("totals", prefix), totals)

\* The three writes of calculate_totals, lines 548 to 562.
WriteTotals(s, prefix, totals) ==
    Put(Put(Put(s, K("totals", prefix), totals),
            K("scope_totals", prefix), ScopeTotals(totals)),
        K("emission_breakdown", prefix), EmissionBreakdown(totals))

\* calculate_totals(prefix): the session state it leaves and whether it raised.
\* The water factor is looked up (line 545) before the first write (line 548).
calculate_totals(s, prefix) ==
    IF WaterLookupRaises(s, prefix)
    THEN [ss |-> s, raised |-> TRUE]
    ELSE [ss |-> The({WriteTotals(s, prefix, totals) : totals \in {Totals(s, prefix)}}),
          raised |-> FALSE]

(***************************************************************************)
(* to_excel: the workbook, a record from the names of the sheets written   *)
(* to their rows.  Sheets 固定源, 移動源, 汙水, 滅火器, 冷媒, 員工通勤,       *)
(* 外購電力, 外購水力.                                                       *)
(***************************************************************************)
RECURSIVE SumRows(_)
\* the sum of a sheet's emission column
SumRows(rows) ==
    IF rows = {} THEN 0
    ELSE LET r == CHOOSE x \in rows : TRUE
         IN  r.emission + SumRows(rows \ {r})

\* Mutant of FireSheetEmission: the factor rows are left at 0.
FireSheetEmission_GwpOnly(v) ==
    IF v.gwp # None THEN v.usage * v.gwp * (Scale \div 1000) ELSE 0

\* df4: 0, then usage * gwp / 1000 where gwp is not null, then usage * factor
\* where factor is not null (the later assignment wins).
FireSheetEmission(v) ==
    IF v.factor # None THEN v.usage * v.factor
    ELSE IF v.gwp # None THEN v.usage * v.gwp * (Scale \div 1000)
    ELSE 0

to_excel(s, prefix) ==
    LET d1 == s[K("s1_data", prefix)]
        d2 == s[K("s2_data", prefix)]
        d3 == s[K("s3_data", prefix)]
        d4 == s[K("s4_data", prefix)]
        d5 == s[K("s5_data", prefix)]
        d6 == s[K("s6_data", prefix)]
        elec == s[K("s7_electricity", prefix)]
        water == s[K("s7_water", prefix)]
        water_source == s[K("s7_water_source", prefix)]
        water_factor == s[K("water_factors", prefix)][water_source]
        always ==
          [stationary |-> [rows |->
              {[label |-> k, usage |-> d1[k].usage, unit |-> d1[k].unit,
                factor |-> d1[k].factor, emission |-> FactorEmission(d1[k])]
               : k \in DOMAIN d1}],
           mobile |-> [rows |->
              {[label |-> IF "name" \in DOMAIN d2[k] THEN d2[k].name ELSE k,
                usage |-> d2[k].usage, unit |-> d2[k].unit,
                factor |-> d2[k].factor, emission |-> FactorEmission(d2[k])]
               : k \in DOMAIN d2}],
           fire |-> [rows |->
              {[label |-> k, usage |-> d4[k].usage, gwp |-> d4[k].gwp,
                factor |-> d4[k].factor, emission |-> FireSheetEmission(d4[k])]
               : k \in DOMAIN d4}],
           refrigerant |-> [rows |->
              {[label |-> k, usage |-> d5[k].usage, gwp |-> d5[k].gwp,
                emission |-> RefrigerantEmission(d5[k])]
               : k \in DOMAIN d5}],
           commuting |-> [rows |->
              {[label |-> k, distance |-> d6[k].distance, factor |-> d6[k].factor,
                emission |-> CommutingEmission(d6[k])]
               : k \in DOMAIN d6}],
           electricity |-> [rows |->
              {[label |-> m, usage |-> elec[m],
                emission |-> UtilityEmission(elec[m], ElectricityFactor)]
               : m \in DOMAIN elec}],
           water |-> [rows |->
              {[label |-> m, usage |-> water[m],
                emission |-> UtilityEmission(water[m], water_factor)]
               : m \in DOMAIN water},
              E1 |-> water_source, E2 |-> water_factor]]
    IN  IF is_septic_used(s, prefix)
        THEN always @@ [wastewater |-> [rows |->
              {[label |-> k, usage |-> d3[k].usage, factor |-> d3[k].factor,
                emission |-> WastewaterEmission(d3[k])]
               : k \in DOMAIN d3}]]
        ELSE always

\* The keys of one version's activity store: its records and its settings.
StoreNames ==
    {"inventory_year", "s1_data", "s2_data", "s3_septic_system", "s3_data", "s4_data",
     "s5_data", "s6_data", "s7_electricity", "s7_water", "s7_water_source",
     "water_factors"}

(***************************************************************************)
(* The import of an exported file.  The repository holds no import: the    *)
(* definitions of this section follow section 4.4 of the specification.    *)
(***************************************************************************)
\* The sheet of each category.
SheetOf ==
    [s1_data |-> "stationary", s2_data |-> "mobile", s3_data |-> "wastewater",
     s4_data |-> "fire", s5_data |-> "refrigerant", s6_data |-> "commuting",
     s7_electricity |-> "electricity", s7_water |-> "water"]

MonthlyCategories == {"s7_electricity", "s7_water"}

\* The input column of a sheet: the only column import reads besides the label.
InputColumn(cat) == IF cat = "s6_data" THEN "distance" ELSE "usage"

RequiredColumns(cat) == {"label", InputColumn(cat)}

\* Every sheet of a recognized name has its required columns.
WellFormed(file) ==
    \A cat \in DOMAIN SheetOf :
        SheetOf[cat] \in DOMAIN file =>
            \A r \in file[SheetOf[cat]].rows : RequiredColumns(cat) \subseteq DOMAIN r

\* Mutant of MatchesRow: a row is matched by the key of a line item only.
MatchesRow_KeyOnly(key, record, label) == label = key

\* "the row's line-item label matches a key (or display_name)"
MatchesRow(key, record, label) ==
    \/ label = key
    \/ "name" \in DOMAIN record /\ record.name = label

\* "overwrite only that record's usage/distance field(s)"
ImportRecords(data, rows, column) ==
    [k \in DOMAIN data |->
        IF \E r \in rows : MatchesRow(k, data[k], r.label)
        THEN [data[k] EXCEPT
                 ![column] = (CHOOSE r \in rows : MatchesRow(k, data[k], r.label))[column]]
        ELSE data[k]]

ImportMonths(data, rows) ==
    [m \in DOMAIN data |->
        IF \E r \in rows : r.label = m
        THEN (CHOOSE r \in rows : r.label = m).usage
        ELSE data[m]]

\* "Missing or unrecognized sheets are silently skipped"
ImportSheet(s, file, cat, prefix) ==
    IF SheetOf[cat] \notin DOMAIN file THEN s[K(cat, prefix)]
    ELSE IF cat \in MonthlyCategories
         THEN ImportMonths(s[K(cat, prefix)], file[SheetOf[cat]].rows)
         ELSE ImportRecords(s[K(cat, prefix)], file[SheetOf[cat]].rows, InputColumn(cat))

\* "Absence of the wastewater sheet is interpreted as a signal to set
\* septic_system_in_use = false; its presence sets it true and imports the rows"
ApplyImport(file, s, prefix) ==
    [s EXCEPT ![K("s1_data", prefix)] = ImportSheet(s, file, "s1_data", prefix),
              ![K("s2_data", prefix)] = ImportSheet(s, file, "s2_data", prefix),
              ![K("s3_data", prefix)] = ImportSheet(s, file, "s3_data", prefix),
              ![K("s4_data", prefix)] = ImportSheet(s, file, "s4_data", prefix),
              ![K("s5_data", prefix)] = ImportSheet(s, file, "s5_data", prefix),
              ![K("s6_data", prefix)] = ImportSheet(s, file, "s6_data", prefix),
              ![K("s7_electricity", prefix)] = ImportSheet(s, file, "s7_electricity", prefix),
              ![K("s7_water", prefix)] = ImportSheet(s, file, "s7_water", prefix),
              ![K("s3_septic_system", prefix)] =
                  IF "wastewater" \in DOMAIN file THEN SepticInUse ELSE SepticNotInUse]

\* Mutant of import_file: the well-formed sheets are applied before the
\* malformed one is found.
import_file_PartialThenFail(file, s, prefix) ==
    LET good == {sh \in DOMAIN file :
                    \A r \in file[sh].rows :
                        /\ "label" \in DOMAIN r
                        /\ "usage" \in DOMAIN r \/ "distance" \in DOMAIN r}
    IN  [ss |-> ApplyImport([sh \in good |-> file[sh]], s, prefix),
         raised |-> ~WellFormed(file)]

\* import(bytes, store): "validate the whole file before applying any update";
\* raised stands for ImportParseError.
import_file(file, s, prefix) ==
    IF WellFormed(file)
    THEN [ss |-> ApplyImport(file, s, prefix), raised |-> FALSE]
    ELSE [ss |-> s, raised |-> TRUE]

\* A malformed file: the exported file with one column of one sheet missing.
DropColumn(file, sheet, col) ==
    [file EXCEPT ![sheet].rows = {[f \in DOMAIN r \ {col} |-> r[f]] : r \in @}]

\* No file has been downloaded.
NoDownload == [taken |-> FALSE, imports |-> 0]

(***************************************************************************)
(* One script run.  An event is the one widget the user has just changed   *)
(* or the one button just pressed; a run returns the session state it      *)
(* leaves, whether it called st.rerun(), whether an exception ended it,    *)
(* and the keyed selectboxes it created.                                   *)
(***************************************************************************)
NoEvent == [type |-> "none"]

Result(s, rerun, rendered) ==
    [ss |-> s, rerun |-> rerun, raised |-> FALSE, rendered |-> rendered, unbind |-> FALSE]

PageOf(prefix) == IF prefix = "ar5" THEN "AR5" ELSE "AR6"

\* Mutant of NumberInput: the input returns the value as it is displayed,
\* rounded to a whole number of display units.
NumberInput_Rounded(ev, cat, item, prefix, stored) ==
    IF ev.type = "number" /\ ev.cat = cat /\ ev.item = item /\ ev.prefix = prefix
    THEN ev.value ELSE (stored \div 10) * 10

\* cols[1].number_input(key=..., value=stored): what the user typed, else the stored value
NumberInput(ev, cat, item, prefix, stored) ==
    IF ev.type = "number" /\ ev.cat = cat /\ ev.item = item /\ ev.prefix = prefix
    THEN ev.value ELSE stored

\* Mutant of InputRows: the mapping is rebuilt from the edited item alone.
InputRows_OnlyEdited(ev, data, cat, field, prefix) ==
    IF ev.type = "number" /\ ev.cat = cat /\ ev.prefix = prefix
    THEN [k \in {ev.item} |-> [data[k] EXCEPT ![field] = ev.value]]
    ELSE data

\* Mutant of InputRows: the input is written to the coefficient of the record.
InputRows_WritesCoefficient(ev, data, cat, field, prefix) ==
    [k \in DOMAIN data |->
        [data[k] EXCEPT ![IF "factor" \in DOMAIN data[k] /\ data[k].factor # None
                          THEN "factor" ELSE "gwp"] = NumberInput(ev, cat, k, prefix, @)]]

\* for item, values in data.items(): values[field] = number_input(...)
InputRows(ev, data, cat, field, prefix) ==
    [k \in DOMAIN data |-> [data[k] EXCEPT ![field] = NumberInput(ev, cat, k, prefix, @)]]

\* for month in data.keys(): data[month] = number_input(...)
InputMonths(ev, data, cat, prefix) ==
    [m \in DOMAIN data |-> NumberInput(ev, cat, m, prefix, data[m])]

\* The year selectbox: the user's pick, else the option at the stored year's index.
YearSelectbox(ev, stored, prefix) ==
    IF ev.type = "year" /\ ev.prefix = prefix THEN ev.value
    ELSE IF stored \in YearsOptions THEN stored
    ELSE DefaultYear

\* The two selectboxes of the form that are bound to a session key.
FormWidgetKeys(prefix) == {K("s3_septic_system", prefix), K("s7_water_source", prefix)}

\* The year selector and the seven tabs: every input writes its value back.
FormInputs(s, prefix, ev) ==
    [s EXCEPT
        ![K("inventory_year", prefix)] = YearSelectbox(ev, @, prefix),
        ![K("s1_data", prefix)] = InputRows(ev, @, "s1_data", "usage", prefix),
        ![K("s2_data", prefix)] = InputRows(ev, @, "s2_data", "usage", prefix),
        ![K("s3_data", prefix)] =
            IF is_septic_used(s, prefix)
            THEN InputRows(ev, @, "s3_data", "usage", prefix) ELSE @,
        ![K("s4_data", prefix)] = InputRows(ev, @, "s4_data", "usage", prefix),
        ![K("s5_data", prefix)] = InputRows(ev, @, "s5_data", "usage", prefix),
        ![K("s6_data", prefix)] = InputRows(ev, @, "s6_data", "distance", prefix),
        ![K("s7_electricity", prefix)] = InputMonths(ev, @, "s7_electricity", prefix),
        ![K("s7_water", prefix)] = InputMonths(ev, @, "s7_water", prefix)]

\* The action buttons: the download data is built, then the calculate button.
FormButtons(w, prefix, ev) ==
    IF WaterLookupRaises(w, prefix)
    THEN \* KeyError at the water factor of the form, of to_excel
         [Result(w, FALSE, FormWidgetKeys(prefix)) EXCEPT !.raised = TRUE]
    ELSE IF ev.type = "calculate" /\ ev.prefix = prefix
    THEN The({IF c.raised
              THEN [Result(c.ss, FALSE, FormWidgetKeys(prefix)) EXCEPT !.raised = TRUE]
              ELSE Result(Put(c.ss, K("show_dashboard", prefix), TRUE),
                          TRUE, FormWidgetKeys(prefix))
              : c \in {calculate_totals(w, prefix)}})
    ELSE Result(w, FALSE, FormWidgetKeys(prefix))

create_input_form(s, prefix, ev) ==
    The({FormButtons(w, prefix, ev) : w \in {FormInputs(s, prefix, ev)}})

create_dashboard(s, prefix, ev) ==
    IF ev.type = "back" /\ ev.prefix = prefix
    THEN Result(Put(s, K("show_dashboard", prefix), FALSE), TRUE, {})
    ELSE IF K("scope_totals", prefix) \notin DOMAIN s
            \/ K("emission_breakdown", prefix) \notin DOMAIN s
            \/ WaterLookupRaises(s, prefix)
    THEN [Result(s, FALSE, {}) EXCEPT !.raised = TRUE]
    ELSE Result(s, FALSE, {})

\* df[derived column] = quantity * 0.474 / 1000, then the editor's table is stored
RenewableRows(rows) ==
    [i \in DOMAIN rows |->
        [category |-> rows[i].category, generation |-> rows[i].generation,
         unit |-> rows[i].unit,
         reduction |-> UtilityEmission(rows[i].generation, ElectricityFactor)]]

\* df[derived column] = sequestration / 1000
TreeRows(rows) ==
    [i \in DOMAIN rows |->
        [tree_category |-> rows[i].tree_category,
         sequestration |-> rows[i].sequestration,
         reduction |-> rows[i].sequestration * (Scale \div 1000)]]

\* Mutant of DataEditor: the editor has num_rows="dynamic" and the user's
\* change adds a row.
DataEditor_Dynamic(ev, list, field, df) ==
    IF ev.type = "campus" /\ ev.list = list
    THEN Append(df, [df[ev.row] EXCEPT ![field] = ev.value])
    ELSE df

\* st.data_editor(df, key=..., column_config=...): the frame it is given, with
\* the cell the user changed replaced.  Only the quantity column is enabled and
\* the editor has no num_rows="dynamic": a change is a new value in a quantity
\* cell of a row that exists.  The derived column of the frame is not computed
\* again by the editor.
DataEditor(ev, list, field, df) ==
    IF ev.type = "campus" /\ ev.list = list
    THEN [df EXCEPT ![ev.row] = [@ EXCEPT ![field] = ev.value]]
    ELSE df

\* Each section builds the frame from the stored rows, computes the derived
\* column from the stored quantities, shows the editor and stores the rows the
\* editor returns.
show_campus_carbon_negative_page(s, ev) ==
    Result([s EXCEPT
              !["campus_renewable_self_use"] =
                  DataEditor(ev, "campus_renewable_self_use", "generation", RenewableRows(@)),
              !["campus_renewable_sold"] =
                  DataEditor(ev, "campus_renewable_sold", "generation", RenewableRows(@)),
              !["campus_tree_sink"] =
                  DataEditor(ev, "campus_tree_sink", "sequestration", TreeRows(@))],
           FALSE, {})

\* total_reduction: the sum of the derived column of the three frames the
\* editors returned, which are the rows the run stored.
CampusTotalShown(s) ==
    Sum([i \in DOMAIN s["campus_renewable_self_use"] |->
            s["campus_renewable_self_use"][i].reduction])
    + Sum([i \in DOMAIN s["campus_renewable_sold"] |->
            s["campus_renewable_sold"][i].reduction])
    + Sum([i \in DOMAIN s["campus_tree_sink"] |-> s["campus_tree_sink"][i].reduction])

\* Mutant of DeleteAllKeys: logout only clears the login flag.
DeleteAllKeys_OnlyFlag(s) == [s EXCEPT !["logged_in"] = FALSE]

\* for key in list(st.session_state.keys()): del st.session_state[key]
DeleteAllKeys(s) == [k \in {} |-> FALSE]

\* st.session_state.get(key, default)
SessionGet(s, key, default) == IF key \in DOMAIN s THEN s[key] ELSE default

\* if page == "AR5" / elif page == "AR6": the dashboard or the input form
VersionPage(s, prefix, ev) ==
    IF SessionGet(s, K("show_dashboard", prefix), FALSE)
    THEN create_dashboard(s, prefix, ev)
    ELSE create_input_form(s, prefix, ev)

main_app(s, ev) ==
    IF ev.type = "page" THEN Result(Put(s, "page", ev.page), TRUE, {})
    ELSE IF ev.type = "logout" THEN [Result(DeleteAllKeys(s), TRUE, {}) EXCEPT !.unbind = TRUE]
    ELSE The({IF page \in {"AR5", "AR6"}
              THEN VersionPage(s, IF page = "AR5" THEN "ar5" ELSE "ar6", ev)
              ELSE IF page = "Campus" THEN show_campus_carbon_negative_page(s, ev)
              ELSE Result(s, FALSE, {})
              : page \in {SessionGet(s, "page", "AR5")}})

\* Mutant of login_page: the password is not compared.
login_page_AnyPassword(s, ev) ==
    IF ev.type = "login" /\ ev.username \in DOMAIN USERS
    THEN Result(Put(Put(s, "logged_in", TRUE), "username", ev.username), TRUE, {})
    ELSE Result(s, FALSE, {})

login_page(s, ev) ==
    IF ev.type = "login"
       /\ ev.username \in DOMAIN USERS /\ USERS[ev.username] = ev.password
    THEN Result(Put(Put(s, "logged_in", TRUE), "username", ev.username), TRUE, {})
    ELSE Result(s, FALSE, {})

\* The module's main logic, lines 1064 to 1071.
MainLogic(s, ev) ==
    The({IF a["logged_in"]
         THEN The({main_app(b, ev) : b \in {initialize_state(a)}})
         ELSE login_page(a, ev)
         : a \in {SetDefault(s, "logged_in", FALSE)}})

\* A changed selectbox that has a key: its new value is in the session state
\* when the run starts.
ApplyWidgetState(s, ev) ==
    IF ev.type = "septic" THEN Put(s, K("s3_septic_system", ev.prefix), ev.value)
    ELSE IF ev.type = "water_source" THEN Put(s, K("s7_water_source", ev.prefix), ev.value)
    ELSE s

\* When a run ends without st.rerun() and without an exception, Streamlit
\* deletes from the session state the key of every keyed widget that the run
\* did not create.
RemoveStale(s, bound, rendered) ==
    [k \in DOMAIN s \ (bound \ rendered) |-> s[k]]

\* The interaction, handled to completion: the run, the run st.rerun() starts.
\* The last run of the interaction has ended: r1 is the first run, r2 the last.
EndOfRun(bound, r1, r2) ==
    The({[ss |-> IF r2.raised THEN r2.ss ELSE RemoveStale(r2.ss, b2, r2.rendered),
          bound |-> b2, raised |-> r2.raised]
         : b2 \in {(IF r1.unbind THEN {} ELSE bound \cup r1.rendered) \cup r2.rendered}})

Rerun(r1) == IF r1.rerun /\ ~r1.raised THEN MainLogic(r1.ss, NoEvent) ELSE r1

ScriptRun(s, bound, ev) ==
    The({The({EndOfRun(bound, r1, r2) : r2 \in {Rerun(r1)}})
         : r1 \in {MainLogic(ApplyWidgetState(s, ev), ev)}})

(***************************************************************************)
(* The state machine.                                                      *)
(***************************************************************************)
\* The session after the first script run: the login page is shown.
Init ==
    /\ session_state = [logged_in |-> FALSE]
    /\ widget_keys = {}
    /\ edits = 0
    /\ download = NoDownload

LoggedIn == "logged_in" \in DOMAIN session_state /\ session_state["logged_in"]

FormShown(prefix) ==
    /\ LoggedIn
    /\ session_state["page"] = PageOf(prefix)
    /\ ~session_state[K("show_dashboard", prefix)]

DashboardShown(prefix) ==
    /\ LoggedIn
    /\ session_state["page"] = PageOf(prefix)
    /\ session_state[K("show_dashboard", prefix)]

\* The line items whose input the exploration edits, per category.
EditItems ==
    [s1_data |-> {"gasoline"}, s2_data |-> {"lubricant_mobile"},
     s3_data |-> {"student_weekday_day"}, s4_data |-> {"FM_200", "BC_dry_powder"},
     s5_data |-> {"HFC_23"}, s6_data |-> {"bus"},
     s7_electricity |-> {"m01"}, s7_water |-> {"m12"}]

\* The value a number input of the form shows.
Stored(s, cat, item, prefix) ==
    IF cat \in {"s7_electricity", "s7_water"} THEN s[K(cat, prefix)][item]
    ELSE IF cat = "s6_data" THEN s[K(cat, prefix)][item].distance
    ELSE s[K(cat, prefix)][item].usage

\* The interaction ev changes the session as the script runs change it.
Handle(ev) ==
    \E r \in {ScriptRun(session_state, widget_keys, ev)} :
        /\ session_state' = r.ss
        /\ widget_keys' = r.bound
        /\ UNCHANGED download

Login(username, password) ==
    /\ ~LoggedIn
    /\ username \in DOMAIN USERS /\ USERS[username] = password
    /\ Handle([type |-> "login", username |-> username, password |-> password])
    /\ UNCHANGED edits

LoginFailed(username, password) ==
    /\ ~LoggedIn
    /\ ~(username \in DOMAIN USERS /\ USERS[username] = password)
    /\ Handle([type |-> "login", username |-> username, password |-> password])
    /\ UNCHANGED edits

SwitchPage(page) ==
    /\ LoggedIn
    /\ Handle([type |-> "page", page |-> page])
    /\ UNCHANGED edits

Logout ==
    /\ LoggedIn
    /\ Handle([type |-> "logout"])
    /\ UNCHANGED edits

EditNumber(prefix, cat, item, value) ==
    /\ FormShown(prefix)
    /\ edits < MaxEdits
    /\ cat = "s3_data" => is_septic_used(session_state, prefix)
    /\ value # Stored(session_state, cat, item, prefix)
    /\ Handle([type |-> "number", prefix |-> prefix, cat |-> cat, item |-> item,
               value |-> value])
    /\ edits' = edits + 1

SetSeptic(prefix, value) ==
    /\ FormShown(prefix)
    /\ edits < MaxEdits
    /\ value # session_state[K("s3_septic_system", prefix)]
    /\ Handle([type |-> "septic", prefix |-> prefix, value |-> value])
    /\ edits' = edits + 1

\* options=list(st.session_state[f'water_factors_{prefix}'].keys())
WaterOptions(prefix) ==
    IF K("water_factors", prefix) \in DOMAIN session_state
    THEN DOMAIN session_state[K("water_factors", prefix)] ELSE {}

SetWaterSource(prefix, value) ==
    /\ FormShown(prefix)
    /\ edits < MaxEdits
    /\ value # session_state[K("s7_water_source", prefix)]
    /\ Handle([type |-> "water_source", prefix |-> prefix, value |-> value])
    /\ edits' = edits + 1

SetYear(prefix, value) ==
    /\ FormShown(prefix)
    /\ edits < MaxEdits
    /\ value # session_state[K("inventory_year", prefix)]
    /\ Handle([type |-> "year", prefix |-> prefix, value |-> value])
    /\ edits' = edits + 1

Calculate(prefix) ==
    /\ FormShown(prefix)
    /\ Handle([type |-> "calculate", prefix |-> prefix])
    /\ UNCHANGED edits

BackToEdit(prefix) ==
    /\ DashboardShown(prefix)
    /\ Handle([type |-> "back", prefix |-> prefix])
    /\ UNCHANGED edits

\* The download button of the form: st.download_button(data=to_excel(prefix)).
\* store keeps the records and settings the file was made from.
Download(prefix) ==
    /\ FormShown(prefix)
    /\ download' = [taken |-> TRUE, imports |-> 0, prefix |-> prefix,
                    file |-> to_excel(session_state, prefix),
                    store |-> [n \in StoreNames |-> session_state[K(n, prefix)]]]
    /\ UNCHANGED <<session_state, widget_keys, edits>>

\* The file given to import: the downloaded one, or a malformed copy of it.
GiveFile(prefix, given, file) ==
    /\ FormShown(prefix)
    /\ download.taken
    /\ download.imports < MaxImports
    /\ \E r \in {import_file(file, session_state, prefix)} :
          /\ session_state' = r.ss
          /\ download' = [taken |-> TRUE, imports |-> download.imports + 1,
                          prefix |-> download.prefix, file |-> download.file,
                          store |-> download.store, target |-> prefix,
                          given |-> given,
                          result |-> IF r.raised THEN "ImportParseError" ELSE "imported"]
    /\ UNCHANGED <<widget_keys, edits>>

Import(prefix) ==
    /\ download.taken
    /\ GiveFile(prefix, "exported", download.file)

MalformedSheets == {"s2_data", "s7_water"}

ImportMalformed(prefix, cat, col) ==
    /\ download.taken
    /\ GiveFile(prefix, "malformed", DropColumn(download.file, SheetOf[cat], col))

Next ==
    \/ \E u \in LoginNames, p \in LoginPasswords : Login(u, p)
    \/ \E u \in LoginNames, p \in LoginPasswords : LoginFailed(u, p)
    \/ \E page \in {"AR5", "AR6", "Campus"} : SwitchPage(page)
    \/ Logout
    \/ \E prefix \in Prefixes, cat \in DOMAIN EditItems :
          \E item \in EditItems[cat], value \in UsageValues :
             EditNumber(prefix, cat, item, value)
    \/ \E prefix \in Prefixes, value \in SepticOptions : SetSeptic(prefix, value)
    \/ \E prefix \in Prefixes :
          \E value \in WaterOptions(prefix) : SetWaterSource(prefix, value)
    \/ \E prefix \in Prefixes, value \in YearChoices : SetYear(prefix, value)
    \/ \E prefix \in Prefixes : Calculate(prefix)
    \/ \E prefix \in Prefixes : BackToEdit(prefix)

Spec == Init /\ [][Next]_vars

\* The session of one user who edits, downloads and imports.
CodecNext ==
    \/ Login("Elvis", USERS["Elvis"])
    \/ \E page \in {"AR5", "AR6"} : SwitchPage(page)
    \/ \E prefix \in Prefixes, cat \in DOMAIN EditItems :
          \E item \in EditItems[cat], value \in UsageValues :
             EditNumber(prefix, cat, item, value)
    \/ \E prefix \in Prefixes, value \in SepticOptions : SetSeptic(prefix, value)
    \/ \E prefix \in Prefixes : Download(prefix)
    \/ \E prefix \in Prefixes : Import(prefix)
    \/ \E prefix \in Prefixes, cat \in MalformedSheets :
          \E col \in RequiredColumns(cat) : ImportMalformed(prefix, cat, col)

CodecSpec == Init /\ [][CodecNext]_vars

(***************************************************************************)
(* The session of one user on the forms and dashboards of the two          *)
(* versions: the inventory year and the campus page are left as they are.  *)
(***************************************************************************)
FormNext ==
    \/ Login("Elvis", USERS["Elvis"])
    \/ \E page \in {"AR5", "AR6"} : SwitchPage(page)
    \/ Logout
    \/ \E prefix \in Prefixes, cat \in DOMAIN EditItems :
          \E item \in EditItems[cat], value \in UsageValues :
             EditNumber(prefix, cat, item, value)
    \/ \E prefix \in Prefixes, value \in SepticOptions : SetSeptic(prefix, value)
    \/ \E prefix \in Prefixes :
          \E value \in WaterOptions(prefix) : SetWaterSource(prefix, value)
    \/ \E prefix \in Prefixes : Calculate(prefix)
    \/ \E prefix \in Prefixes : BackToEdit(prefix)

FormSpec == Init /\ [][FormNext]_vars

(***************************************************************************)
(* The session of one user on the campus page.                             *)
(***************************************************************************)
CampusLists == {"campus_renewable_self_use", "campus_renewable_sold", "campus_tree_sink"}

QuantityField(list) == IF list = "campus_tree_sink" THEN "sequestration" ELSE "generation"

\* The whole numbers typed into a quantity cell (min_value=0, format "%d").
QuantityValues == {0, 500, 2000}

CampusShown == LoggedIn /\ session_state["page"] = "Campus"

\* The user changes one quantity cell of an editor of the campus page.
CampusEdit(list, row, value) ==
    /\ CampusShown
    /\ edits < MaxEdits
    /\ row \in DOMAIN session_state[list]
    /\ value # session_state[list][row][QuantityField(list)]
    /\ Handle([type |-> "campus", list |-> list, row |-> row, value |-> value])
    /\ edits' = edits + 1

CampusNext ==
    \/ Login("Elvis", USERS["Elvis"])
    \/ \E page \in {"AR5", "Campus"} : SwitchPage(page)
    \/ \E list \in CampusLists, row \in 1 .. 3, value \in QuantityValues :
          CampusEdit(list, row, value)
    \/ Logout

CampusSpec == Init /\ [][CampusNext]_vars

\* The user of the campus page goes on using the application.
CampusLiveSpec == CampusSpec /\ WF_vars(CampusNext)

(***************************************************************************)
(* calculate_totals as a function of the fire-suppressant records: the     *)
(* session after a login, with the records of AR5 drawn from every shape   *)
(* a record can have (gwp, factor, both, neither, the two keys missing).   *)
(***************************************************************************)
FireRecords ==
    {[usage |-> u, gwp |-> g, factor |-> f] :
        u \in 0 .. MaxUsage, g \in {None, 3350}, f \in {None, 3000}}
    \cup {[usage |-> u] : u \in 0 .. MaxUsage}

FireStores == [{"FM_200", "BC_dry_powder"} -> FireRecords]

\* The session the first form render leaves after a login.
SessionAfterLogin ==
    ScriptRun([logged_in |-> FALSE], {},
              [type |-> "login", username |-> "Elvis", password |-> USERS["Elvis"]])

FireInit ==
    /\ session_state \in {Put(SessionAfterLogin.ss, K("s4_data", "ar5"), d) : d \in FireStores}
    /\ widget_keys = SessionAfterLogin.bound
    /\ edits = 0
    /\ download = NoDownload

FireCalculate ==
    /\ K("totals", "ar5") \notin DOMAIN session_state
    /\ session_state' = calculate_totals(session_state, "ar5").ss
    /\ UNCHANGED <<widget_keys, edits, download>>

FireSpec == FireInit /\ [][FireCalculate]_vars

(***************************************************************************)
(* Properties.                                                             *)
(***************************************************************************)
TotalsNames == {"totals", "scope_totals", "emission_breakdown"}

\* The step leaves the key as it is: absent, or present with the same value.
SameKey(k) ==
    /\ (k \in DOMAIN session_state) <=> (k \in DOMAIN session_state')
    /\ k \in DOMAIN session_state => session_state'[k] = session_state[k]

\* The step is the calculate button of the form of version prefix.
CalculateStep(prefix) == FormShown(prefix) /\ DashboardShown(prefix)'

\* C1: whenever the totals of a version are stored, the grand total is the sum
\* of the three scopes, the sum of the eight subtotals of totals_<prefix> and
\* the sum of the eight entries of emission_breakdown_<prefix>.
C1_GrandTotalReconciles ==
    \A p \in Prefixes :
        K("scope_totals", p) \in DOMAIN session_state =>
            /\ K("totals", p) \in DOMAIN session_state
            /\ K("emission_breakdown", p) \in DOMAIN session_state
            /\ LET sc == session_state[K("scope_totals", p)]
                   t == session_state[K("totals", p)]
                   b == session_state[K("emission_breakdown", p)]
               IN  /\ sc.GrandTotal = sc.Scope1 + sc.Scope2 + sc.Scope3
                   /\ sc.GrandTotal = t.s1 + t.s2 + t.s3 + t.s4 + t.s5 + t.s6
                                      + t.s7_electricity + t.s7_water
                   /\ sc.GrandTotal = b.stationary + b.mobile + b.wastewater + b.fire
                                      + b.refrigerant + b.commuting + b.electricity
                                      + b.water

\* Totals computed from a store the user has edited twice.
C1_Witness ==
    /\ K("scope_totals", "ar6") \in DOMAIN session_state
    /\ edits = MaxEdits
    /\ session_state[K("totals", "ar6")].s5 # RefrigerantTotal(S5Default)
    /\ session_state[K("totals", "ar6")].s5 > 0

\* C2: an edit made on the form of one version leaves every record and every
\* setting of the other version as it was.
C2_EditsStayInTheirVersion ==
    [][\A p \in Prefixes :
         (FormShown(p) /\ edits' = edits + 1) =>
             \A q \in Prefixes \ {p} : \A n \in StoreNames : SameKey(K(n, q))]_vars

\* The AR6 form has been edited and the AR5 record of the same item is the default.
C2_Witness ==
    /\ FormShown("ar6")
    /\ session_state[K("s1_data", "ar6")]["gasoline"].usage = MaxUsage
    /\ session_state[K("s1_data", "ar5")] = S1Default

\* C3: a switch of the page with no edit leaves the store of each version, as
\* the next script run reads it (after initialize_state), unchanged, and so the
\* totals calculate_totals computes from it.
C3_PageSwitchKeepsStore ==
    [][(LoggedIn /\ LoggedIn' /\ edits' = edits
        /\ session_state'["page"] # session_state["page"]) =>
           \A p \in Prefixes :
              /\ \A n \in StoreNames :
                    initialize_state(session_state')[K(n, p)]
                        = initialize_state(session_state)[K(n, p)]
              /\ Totals(initialize_state(session_state'), p)
                    = Totals(initialize_state(session_state), p)]_vars

\* C4: initialize_state keeps the value of every key the session holds, and a
\* second call changes nothing.
C4_InitializeIdempotent ==
    LoggedIn =>
        LET once == initialize_state(session_state)
        IN  /\ \A k \in DOMAIN session_state : once[k] = session_state[k]
            /\ initialize_state(once) = once

\* initialize_state runs on a session that holds an edited record.
C4_Witness ==
    /\ LoggedIn
    /\ session_state[K("s6_data", "ar5")]["bus"].distance = MaxUsage
    /\ K("s3_septic_system", "ar5") \in DOMAIN session_state
    /\ session_state[K("s3_septic_system", "ar5")] = SepticNotInUse

\* The wastewater sum written out: usage * factor * 28 over the seven records.
WastewaterBy28(d) ==
    (d["student_weekday_day"].usage * d["student_weekday_day"].factor
     + d["student_weekday_night"].usage * d["student_weekday_night"].factor
     + d["student_holiday"].usage * d["student_holiday"].factor
     + d["resident"].usage * d["resident"].factor
     + d["staff_weekday_day"].usage * d["staff_weekday_day"].factor
     + d["staff_weekday_night"].usage * d["staff_weekday_night"].factor
     + d["staff_holiday"].usage * d["staff_holiday"].factor) * 28

\* C5: the calculate button stores a wastewater subtotal of 0 when the septic
\* setting of the form is not the 'in use' value, and the sum of
\* usage * factor * 28 over the wastewater records when it is.
C5_SepticDecidesWastewater ==
    [][\A p \in Prefixes :
         CalculateStep(p) =>
             session_state'[K("totals", p)].s3 =
                 IF session_state[K("s3_septic_system", p)] = SepticInUse
                 THEN WastewaterBy28(session_state[K("s3_data", p)])
                 ELSE 0]_vars

\* Totals stored with the septic tank not in use and an edited wastewater record.
C5_Witness ==
    /\ DashboardShown("ar5")
    /\ session_state[K("s3_data", "ar5")]["student_weekday_day"].usage = MaxUsage
    /\ session_state[K("totals", "ar5")].s3 = 0

\* The store of version p with a water utility the factor table does not hold.
UnknownUtilityStore(p) == Put(session_state, K("s7_water_source", p), "unknown_utility")

\* C6: a step either leaves the three totals keys of a version as they were,
\* or deletes all three (logout), or writes all three from the store of the
\* form; and calculate_totals on a store with an unknown water utility raises
\* and leaves the session as it was.
C6_TotalsWrittenTogether ==
    /\ [][\A p \in Prefixes :
            \/ \A n \in TotalsNames : SameKey(K(n, p))
            \/ \A n \in TotalsNames : K(n, p) \notin DOMAIN session_state'
            \/ /\ CalculateStep(p)
               /\ \A n \in TotalsNames : K(n, p) \in DOMAIN session_state'
               /\ session_state'[K("totals", p)] = Totals(session_state, p)
               /\ session_state'[K("scope_totals", p)]
                     = ScopeTotals(Totals(session_state, p))
               /\ session_state'[K("emission_breakdown", p)]
                     = EmissionBreakdown(Totals(session_state, p))]_vars
    /\ [](\A p \in Prefixes :
            FormShown(p) =>
                calculate_totals(UnknownUtilityStore(p), p)
                    = [ss |-> UnknownUtilityStore(p), raised |-> TRUE])

\* Totals written a second time, from a store edited since the first time.
C6_Witness ==
    /\ DashboardShown("ar5")
    /\ edits = MaxEdits
    /\ session_state[K("totals", "ar5")].s1 # FactorTotal(S1Default)
    /\ session_state[K("totals", "ar5")].s6 # CommutingTotal(S6Default)

ImportStep(q) ==
    /\ download'.imports = download.imports + 1
    /\ download'.target = q

\* C8: after the import of the file to_excel made from a store, every line
\* item the file holds (the wastewater items only when the septic tank was in
\* use at the export) has in the importing store the usage or distance it had
\* in the exported store, and so has every month of the two utilities.
C8_ExportImportRoundTrip ==
    [][\A q \in Prefixes :
         (ImportStep(q) /\ download'.given = "exported") =>
             /\ download'.result = "imported"
             /\ \A cat \in DOMAIN SheetOf \ MonthlyCategories :
                   (cat # "s3_data" \/ download.store["s3_septic_system"] = SepticInUse) =>
                       \A k \in DOMAIN download.store[cat]
                                 \cap DOMAIN session_state[K(cat, q)] :
                           session_state'[K(cat, q)][k][InputColumn(cat)]
                               = download.store[cat][k][InputColumn(cat)]
             /\ \A cat \in MonthlyCategories : \A m \in Months :
                   session_state'[K(cat, q)][m] = download.store[cat][m]]_vars

\* One edit, made on AR5; the AR6 store has the edited value from the file.
C8_Witness ==
    /\ download.imports > 0
    /\ download.result = "imported"
    /\ download.prefix = "ar5" /\ download.target = "ar6"
    /\ edits = 1
    /\ download.store["s2_data"]["lubricant_mobile"].usage = MaxUsage
    /\ session_state[K("s2_data", "ar6")]["lubricant_mobile"].usage = MaxUsage

\* C9: the import of a file with a required column of a recognized sheet
\* missing ends in ImportParseError and leaves the session state as it was.
C9_MalformedImportChangesNothing ==
    [][\A q \in Prefixes :
         (ImportStep(q) /\ download'.given = "malformed") =>
             /\ download'.result = "ImportParseError"
             /\ session_state' = session_state]_vars

\* A malformed copy of a file was refused by a store that differs from the
\* store the file was made from.
C9_Witness ==
    /\ download.imports > 0
    /\ download.given = "malformed"
    /\ download.result = "ImportParseError"
    /\ download.prefix = "ar5" /\ download.target = "ar6"
    /\ download.store["s1_data"]["gasoline"].usage = MaxUsage
    /\ session_state[K("s1_data", "ar6")]["gasoline"].usage # MaxUsage

\* C10: while nobody is logged in the session holds the login flag and no
\* other key (no store before login, none after logout), and a login gives
\* every record and setting of both versions its default and no totals.
C10_StoreLivesWithSession ==
    /\ [](~LoggedIn => session_state = [logged_in |-> FALSE])
    /\ [][(~LoggedIn /\ LoggedIn') =>
            \A p \in Prefixes :
               /\ \A n \in StoreNames :
                     session_state'[K(n, p)] = ArDefaults(p)[K(n, p)]
               /\ \A n \in TotalsNames : K(n, p) \notin DOMAIN session_state']_vars

\* Logged out after a session in which the user edited the store.
C10_Witness == ~LoggedIn /\ edits = MaxEdits

\* The mappings of a version that hold line items, and the input field of each.
RecordCategories == {"s1_data", "s2_data", "s3_data", "s4_data", "s5_data", "s6_data"}

\* The mapping get_ar_initial_data writes for each category, of either version.
CategoryDefault ==
    [s1_data |-> S1Default, s2_data |-> S2Default, s3_data |-> S3Default,
     s4_data |-> S4Default, s5_data |-> S5Default, s6_data |-> S6Default,
     s7_electricity |-> S7ElectricityDefault, s7_water |-> S7WaterDefault]

\* The line-item keys of each category after initialization.
DefaultKeys == [cat \in DOMAIN CategoryDefault |-> DOMAIN CategoryDefault[cat]]

\* The records of a mapping with the input field blanked: what is left is
\* the coefficients (factor, gwp) and the labels (unit, name).
Blank(d, col) == [k \in DOMAIN d |-> [d[k] EXCEPT ![col] = 0]]

\* The coefficients and labels of each category after initialization.
Coefficients ==
    [cat \in RecordCategories |-> Blank(CategoryDefault[cat], InputColumn(cat))]

\* C11: while a user is logged in, each category mapping of each version has
\* the line-item keys (the utilities: the months) initialization gave it.
C11_LineItemsFixed ==
    LoggedIn =>
        \A p \in Prefixes : \A cat \in DOMAIN DefaultKeys :
            DOMAIN session_state[K(cat, p)] = DefaultKeys[cat]

\* Both edits are spent and the totals of AR6 have been calculated and shown.
C11_Witness ==
    /\ DashboardShown("ar6")
    /\ edits = MaxEdits
    /\ session_state[K("s7_water", "ar6")]["m12"] = MaxUsage

\* C12: while a user is logged in, every record of every version equals its
\* default in every field but its input (usage, distance), so factor, gwp,
\* unit and name are the defaults, and the water factor table is the default.
C12_CoefficientsImmutable ==
    LoggedIn =>
        \A p \in Prefixes :
            /\ session_state[K("water_factors", p)] = WaterFactorsDefault
            /\ \A cat \in RecordCategories :
                  Blank(session_state[K(cat, p)], InputColumn(cat)) = Coefficients[cat]

\* Records with a factor and records with a gwp have been edited.
C12_Witness ==
    /\ LoggedIn
    /\ session_state[K("s4_data", "ar5")]["BC_dry_powder"].usage = MaxUsage
    /\ session_state[K("s5_data", "ar5")]["HFC_23"].usage = MaxUsage

\* The three keys calculate_totals(p) writes.
TotalsKeys(p) == {K(n, p) : n \in TotalsNames}

\* C13: calculate_totals(p), applied to the session of a form that is shown,
\* returns a session with the keys it had and the three totals keys of p, and
\* with the value of every other key (the records and settings of both
\* versions, the totals of the other version, the campus lists) as it was.
C13_CalculateTotalsFrame ==
    \A p \in Prefixes :
        FormShown(p) =>
            \E r \in {calculate_totals(session_state, p)} :
                /\ ~r.raised
                /\ DOMAIN r.ss = DOMAIN session_state \cup TotalsKeys(p)
                /\ \A k \in DOMAIN session_state \ TotalsKeys(p) :
                      r.ss[k] = session_state[k]

\* The AR5 form is shown with edited inputs and the totals of both versions
\* already in the session.
C13_Witness ==
    /\ FormShown("ar5")
    /\ edits = MaxEdits
    /\ K("totals", "ar5") \in DOMAIN session_state
    /\ K("totals", "ar6") \in DOMAIN session_state
    /\ session_state[K("totals", "ar6")] # Totals(session_state, "ar5")

\* C14: the stored scopes of a version are built from its stored subtotals:
\* Scope 1 is s1 + s2 + s3 + s4 + s5, Scope 2 is s7_electricity and Scope 3
\* is s6 + s7_water.
C14_ScopeAggregation ==
    \A p \in Prefixes :
        K("scope_totals", p) \in DOMAIN session_state =>
            \E sc \in {session_state[K("scope_totals", p)]} :
            \E t \in {session_state[K("totals", p)]} :
                /\ sc.Scope1 = t.s1 + t.s2 + t.s3 + t.s4 + t.s5
                /\ sc.Scope2 = t.s7_electricity
                /\ sc.Scope3 = t.s6 + t.s7_water

\* Totals stored with purchased electricity and purchased water both non-zero.
C14_Witness ==
    /\ K("scope_totals", "ar5") \in DOMAIN session_state
    /\ session_state[K("totals", "ar5")].s7_electricity > 0
    /\ session_state[K("totals", "ar5")].s7_water > 0
    /\ session_state[K("scope_totals", "ar5")].Scope1 > 0

\* C15: the fire subtotal calculate_totals stores is, over the records, the
\* sum of usage * gwp / 1000 where gwp is not null, else of usage * factor
\* where factor is not null, else of 0; with a record that has neither the
\* totals are stored all the same.
C15_FireSubtotal ==
    K("totals", "ar5") \in DOMAIN session_state =>
        \E d \in {session_state[K("s4_data", "ar5")]} :
            session_state[K("totals", "ar5")].s4 =
                Sum([k \in DOMAIN d |->
                        IF "gwp" \in DOMAIN d[k] /\ d[k].gwp # None
                        THEN d[k].usage * d[k].gwp * 10000
                        ELSE IF "factor" \in DOMAIN d[k] /\ d[k].factor # None
                        THEN d[k].usage * d[k].factor
                        ELSE 0])

\* Totals stored for a record with gwp and factor both set and a record with
\* neither key: only the gwp term is in the subtotal.
C15_Witness ==
    /\ K("totals", "ar5") \in DOMAIN session_state
    /\ session_state[K("s4_data", "ar5")]["FM_200"]
          = [usage |-> MaxUsage, gwp |-> 3350, factor |-> 3000]
    /\ session_state[K("s4_data", "ar5")]["BC_dry_powder"] = [usage |-> MaxUsage]
    /\ session_state[K("totals", "ar5")].s4 = MaxUsage * 3350 * 10000
    /\ K("scope_totals", "ar5") \in DOMAIN session_state

\* C16: while a user is logged in, every fire-suppressant record of every
\* version has a gwp or a factor, and not both.
C16_OneCoefficientPerFireRecord ==
    LoggedIn =>
        \A p \in Prefixes : \A k \in DOMAIN session_state[K("s4_data", p)] :
            \E v \in {session_state[K("s4_data", p)][k]} :
                (v.gwp # None) # (v.factor # None)

\* The AR6 dashboard is shown after a gwp record and a factor record of AR6
\* were edited.
C16_Witness ==
    /\ DashboardShown("ar6")
    /\ session_state[K("s4_data", "ar6")]["FM_200"].usage = MaxUsage
    /\ session_state[K("s4_data", "ar6")]["BC_dry_powder"].usage = MaxUsage

\* The eight category mappings of both versions, as one value.
InputData(s) ==
    [p \in Prefixes |-> [cat \in DOMAIN CategoryDefault |-> s[K(cat, p)]]]

\* C18: a script run with no user event (the form with its export, or the
\* dashboard, is rendered again) leaves the usage, the
\* distance and the monthly values of both versions as they are stored.
C18_RenderKeepsInputs ==
    LoggedIn =>
        \E r \in {ScriptRun(session_state, widget_keys, NoEvent)} :
            /\ ~r.raised
            /\ InputData(r.ss) = InputData(session_state)

\* The AR5 dashboard is rendered over a store with an edited refrigerant
\* quantity (a value shown with one decimal) and an edited month.
C18_Witness ==
    /\ DashboardShown("ar5")
    /\ session_state[K("s5_data", "ar5")]["HFC_23"].usage = MaxUsage
    /\ session_state[K("s7_electricity", "ar5")]["m01"] = MaxUsage

\* C17: the file to_excel makes from the store of a form that is shown has
\* the wastewater sheet exactly when the septic setting of the version is
\* the 'in use' value, and always has the seven other sheets, and no more.
C17_WastewaterSheetIffSeptic ==
    \A p \in Prefixes :
        FormShown(p) =>
            \E f \in {to_excel(session_state, p)} :
                /\ ("wastewater" \in DOMAIN f)
                      <=> (session_state[K("s3_septic_system", p)] = SepticInUse)
                /\ DOMAIN f \ {"wastewater"}
                      = {"stationary", "mobile", "fire", "refrigerant", "commuting",
                         "electricity", "water"}

\* The AR6 form exports a store whose septic tank is not in use and whose
\* wastewater record was edited: the file has no wastewater sheet.
C17_Witness ==
    /\ FormShown("ar6")
    /\ session_state[K("s3_septic_system", "ar6")] = SepticNotInUse
    /\ session_state[K("s3_data", "ar6")]["student_weekday_day"].usage = MaxUsage
    /\ "wastewater" \notin DOMAIN to_excel(session_state, "ar6")

\* sum over the current rows of the conversion of the current quantity
CampusTotalOfQuantities(s) ==
    Sum([i \in DOMAIN s["campus_renewable_self_use"] |->
            UtilityEmission(s["campus_renewable_self_use"][i].generation, ElectricityFactor)])
    + Sum([i \in DOMAIN s["campus_renewable_sold"] |->
            UtilityEmission(s["campus_renewable_sold"][i].generation, ElectricityFactor)])
    + Sum([i \in DOMAIN s["campus_tree_sink"] |->
            s["campus_tree_sink"][i].sequestration * (Scale \div 1000)])

\* C19: whenever the campus page is shown, the total it shows is the sum, over
\* the current rows of the three lists, of the conversion of the current
\* quantity of the row, also in the run in which a quantity was edited.
C19_TotalFollowsQuantities ==
    CampusShown =>
        CampusTotalShown(session_state) = CampusTotalOfQuantities(session_state)

\* The category column of a campus list.
CategoryColumn(list, rows) ==
    [i \in DOMAIN rows |->
        IF list = "campus_tree_sink" THEN rows[i].tree_category ELSE rows[i].category]

\* C20 (as the code behaves): the editors of the campus page let the user
\* change quantities only, so in every logged-in state each of the three campus
\* lists has the rows of the default list written by get_campus_initial_data,
\* with the same categories in the same order: no row is ever added or removed.
C20_RowsAreFixed ==
    LoggedIn =>
        \A list \in CampusLists :
            /\ Len(session_state[list]) = Len(CampusDefaults[list])
            /\ CategoryColumn(list, session_state[list])
                  = CategoryColumn(list, CampusDefaults[list])

\* The user changed the quantity of the last tree row on the campus page.
C20_Witness ==
    /\ CampusShown
    /\ edits > 0
    /\ session_state["campus_tree_sink"][3].sequestration = 2000

\* C20 (as stated): a session reaches a state in which a campus list has more
\* rows than the default list, and a state in which one has fewer.
C20_RowsAddedAndRemoved ==
    /\ <>(LoggedIn /\ \E list \in CampusLists :
              Len(session_state[list]) > Len(CampusDefaults[list]))
    /\ <>(LoggedIn /\ \E list \in CampusLists :
              Len(session_state[list]) < Len(CampusDefaults[list]))

\* C21: the calculate button stores, from the store of the form, a stationary
\* and a mobile subtotal that are the plain sum of usage * factor (gasoline
\* with usage 100 and factor 0.002271 contributes 0.2271 t), and refrigerant,
\* commuting, electricity and water subtotals that are products divided by 1000.
C21_UnitConvention ==
    [][\A p \in Prefixes :
         CalculateStep(p) =>
             \E t \in {session_state'[K("totals", p)]} :
             \E s1 \in {session_state[K("s1_data", p)]} :
             \E s2 \in {session_state[K("s2_data", p)]} :
             \E s5 \in {session_state[K("s5_data", p)]} :
             \E s6 \in {session_state[K("s6_data", p)]} :
                /\ t.s1 = Sum([k \in DOMAIN s1 |-> s1[k].usage * s1[k].factor])
                /\ s1["gasoline"].usage = 100 =>
                      t.s1 - Sum([k \in DOMAIN s1 \ {"gasoline"} |->
                                     s1[k].usage * s1[k].factor])
                         = 2271 * (Scale \div 10000)
                /\ t.s2 = Sum([k \in DOMAIN s2 |-> s2[k].usage * s2[k].factor])
                /\ t.s5 = Sum([k \in DOMAIN s5 |->
                                 (s5[k].usage * s5[k].gwp * (Scale \div 1000)) \div 10])
                /\ t.s6 = Sum([k \in DOMAIN s6 |-> s6[k].distance * (s6[k].factor \div 1000)])
                /\ t.s7_electricity
                      = Sum(session_state[K("s7_electricity", p)])
                           * (ElectricityFactor \div 1000)
                /\ t.s7_water
                      = Sum(session_state[K("s7_water", p)])
                           * (session_state[K("water_factors", p)]
                                 [session_state[K("s7_water_source", p)]] \div 1000)]_vars

\* Totals of AR6 stored with the default gasoline usage of 100 and an edited
\* commuting distance.
C21_Witness ==
    /\ DashboardShown("ar6")
    /\ session_state[K("s1_data", "ar6")]["gasoline"].usage = 100
    /\ session_state[K("s6_data", "ar6")]["bus"].distance = MaxUsage
    /\ session_state[K("totals", "ar6")].s1 > 2271 * (Scale \div 10000)

\* C22: whenever the dashboard flag of a version is set, its scope totals and
\* its emission breakdown are stored and equal what calculate_totals computes
\* from the store of the version as the next script run reads it (after
\* initialize_state).
C22_DashboardFresh ==
    \A p \in Prefixes :
        (LoggedIn /\ session_state[K("show_dashboard", p)]) =>
            /\ K("scope_totals", p) \in DOMAIN session_state
            /\ K("emission_breakdown", p) \in DOMAIN session_state
            /\ \E t \in {Totals(initialize_state(session_state), p)} :
                  /\ session_state[K("scope_totals", p)] = ScopeTotals(t)
                  /\ session_state[K("emission_breakdown", p)] = EmissionBreakdown(t)

\* What the user of a form, a dashboard or the sidebar can do, as events.
GatedEvents ==
    {[type |-> "number", prefix |-> p, cat |-> "s1_data", item |-> "gasoline",
      value |-> MaxUsage] : p \in Prefixes}
    \cup {[type |-> "calculate", prefix |-> p] : p \in Prefixes}
    \cup {[type |-> "back", prefix |-> p] : p \in Prefixes}
    \cup {[type |-> "page", page |-> page] : page \in {"AR5", "AR6", "Campus"}}
    \cup {[type |-> "logout"]}

\* C23: while nobody is logged in the session holds the login flag alone (no
\* store); submitting the login form logs in exactly when the pair is an entry
\* of USERS, and otherwise leaves the session as it is; and a script run on any
\* other event leaves the session as it is.
C23_LoginGating ==
    ~LoggedIn =>
        /\ session_state = [logged_in |-> FALSE]
        /\ \A u \in LoginNames \cup DOMAIN USERS, pw \in LoginPasswords :
              \E r \in {ScriptRun(session_state, widget_keys,
                                  [type |-> "login", username |-> u, password |-> pw])} :
                 IF u \in DOMAIN USERS /\ USERS[u] = pw
                 THEN r.ss["logged_in"] /\ r.ss["username"] = u
                 ELSE r.ss = session_state
        /\ \A ev \in GatedEvents :
              \E r \in {MainLogic(session_state, ev)} :
                 r.ss = session_state /\ ~r.rerun /\ ~r.raised

\* Nobody is logged in, after a session in which the store was edited.
C23_Witness ==
    /\ ~LoggedIn
    /\ edits > 0
    /\ widget_keys = {}

\* C24: in every logged-in state the store of each version, as the next
\* script run reads it (after initialize_state), has a water utility that is a
\* key of the water factor table of the version, calculate_totals on it does
\* not raise, and the lookup of to_excel finds the factor.
C24_WaterUtilityListed ==
    LoggedIn =>
        \E s \in {initialize_state(session_state)} :
            \A p \in Prefixes :
                /\ s[K("s7_water_source", p)] \in DOMAIN s[K("water_factors", p)]
                /\ ~WaterLookupRaises(s, p)
                /\ ~calculate_totals(s, p).raised
                /\ to_excel(s, p)["water"].E2
                      = s[K("water_factors", p)][s[K("s7_water_source", p)]]

\* The AR6 form is shown with the other water utility selected and edited
\* monthly water usage.
C24_Witness ==
    /\ FormShown("ar6")
    /\ session_state[K("s7_water_source", "ar6")] = "Taipei_Water"
    /\ session_state[K("s7_water", "ar6")]["m12"] = MaxUsage

=============================================================================
